---- MODULE Spec2Model ----
(***************************************************************************)
(* pollster: block_on, the Signal (mutex + condition variable) it parks    *)
(* on, and the RawWaker vtable that shares the Signal as an Arc.           *)
(*                                                                         *)
(* Threads are the block_on calls (each runs on a driver thread) and the   *)
(* notifier threads that hold wakers handed out by a task (a reactor, a    *)
(* timer thread, the consumer of benches/main.rs).  Every block_on call d  *)
(* creates its own Signal, so Signals are indexed by the call.             *)
(***************************************************************************)
EXTENDS Integers, FiniteSets, Sequences, TLC

\* ------------------------------------------------------------- bounds
MaxCalls == 2
NumNotifiers == 1
MaxStrong == 4
MaxPolls == 4
MaxCount == 2
\* The bounds of the specification of several calls.
CallsMaxPolls == 2
CallsMaxStrong == 3
\* The bound of the specification of a second waiting thread.
WaitersMaxPolls == 3

Calls == 1..MaxCalls
Notifiers == 1..NumNotifiers
Values == {"v42", "err"}

\* Thread identities, as the mutex sees them.
NoThread == <<"none", 0>>
CallThread(d) == <<"call", d>>
NotifierThread(n) == <<"notifier", n>>
OtherThread(s) == <<"other", s>>

Sat(n) == IF n < MaxCount THEN n + 1 ELSE MaxCount

VARIABLES
    pc,        \* pc[d]: where block_on call d is
    parent,    \* parent[d]: the call inside whose poll attempt d runs (0: none)
    pred,      \* pred[d]: the finished call whose thread d runs on (0: none)
    pollres,   \* pollres[d]: what the last poll attempt returned
    ret,       \* ret[d]: what block_on returned
    panicking, \* panicking[d]: block_on is unwinding
    tkind,     \* tkind[d]: the wake operation the task is performing in a poll
    state,     \* state[s]: SignalState behind the mutex
    lock,      \* lock[s]: the thread holding Signal.state's mutex
    cond,      \* cond[s]: the threads blocked in cond.wait
    strong,    \* strong[s]: the Arc's strong count
    freed,     \* freed[s]: how many times the Signal was deallocated
    ub,        \* an Arc was used after its Signal was deallocated
    sigRef,    \* sigRef[d]: block_on's local `signal` is live
    wakerRef,  \* wakerRef[d]: block_on's local `waker` is live
    taskH,     \* taskH[d]: wakers stored inside the task of call d
    held,      \* held[n][s]: wakers of Signal s held by notifier thread n
    npc,       \* npc[n]: where notifier thread n is
    nsig,      \* nsig[n]: the Signal its current operation is on
    nkind,     \* nkind[n]: "wake" or "ref"
    poisoned,  \* poisoned[s]: a thread panicked holding the mutex of Signal s
    opc,       \* opc[s]: where the other thread calling wait() on Signal s is
    oRef,      \* oRef[s]: the share of Signal s that thread holds
    polls,     \* polls[d]: poll attempts started
    waitCalls, \* waitCalls[d]: calls of signal.wait()
    waitRets,  \* waitRets[d]: returns of signal.wait()
    everParked,\* everParked[d]: the driver has blocked in cond.wait
    lastWait,  \* lastWait[d]: how the last wait() returned
    nDone,     \* nDone[s]: notify() completed outside wait() since wait() last returned
    nIn,       \* nIn[s]: notify() completed during the wait() in progress
    selfWoke,  \* selfWoke[d]: the task completed a notify() in the running poll attempt
    allSelf,   \* allSelf[d]: it did so in every poll attempt that reported pending
    burst,     \* burst[d]: what nIn was when wait() last returned
    clones,    \* clones[s]: calls of VTABLE clone on a waker of Signal s
    notifies   \* notifies[s]: notify() calls on Signal s that changed its state
               \* (one that finds Notified changes nothing and is not counted)

otherVars == <<opc, oRef>>
progVars == <<pc, parent, pred, pollres, ret, panicking, tkind, state, lock, cond,
              strong, freed, ub, sigRef, wakerRef, taskH, held, npc, nsig, nkind,
              poisoned, otherVars>>
histVars == <<polls, waitCalls, waitRets, everParked, lastWait, nDone, nIn, selfWoke,
              allSelf, burst, clones, notifies>>
vars == <<progVars, histVars>>
\* ------------------------------------------------------------- Signal
\* A Signal that starts with a notification left in it.
SignalNew_Stale == "Notified"

\* Signal::new: the state a fresh Signal starts in.
SignalNew == "Empty"

\* A wait() that blocks although a notification is pending.
WaitOnEntry_IgnoreNotified(st) ==
    CASE st = "Notified" -> [state |-> "Waiting", outcome |-> "block"]
      [] st = "Waiting" -> [state |-> "Waiting", outcome |-> "panic"]
      [] st = "Empty" -> [state |-> "Waiting", outcome |-> "block"]

\* A wait() that returns on a notification without consuming it.
WaitOnEntry_KeepsMark(st) ==
    CASE st = "Notified" -> [state |-> "Notified", outcome |-> "return"]
      [] st = "Waiting" -> [state |-> "Waiting", outcome |-> "panic"]
      [] st = "Empty" -> [state |-> "Waiting", outcome |-> "block"]

\* A wait() that returns on a notification and leaves Waiting behind.
WaitOnEntry_LeavesWaiting(st) ==
    CASE st = "Notified" -> [state |-> "Waiting", outcome |-> "return"]
      [] st = "Waiting" -> [state |-> "Waiting", outcome |-> "panic"]
      [] st = "Empty" -> [state |-> "Waiting", outcome |-> "block"]

\* A wait() that joins the thread already waiting.
WaitOnEntry_JoinWaiter(st) ==
    CASE st = "Notified" -> [state |-> "Empty", outcome |-> "return"]
      [] st = "Waiting" -> [state |-> "Waiting", outcome |-> "block"]
      [] st = "Empty" -> [state |-> "Waiting", outcome |-> "block"]

\* Signal::wait, the match on the state found under the lock: the state it
\* leaves and whether it returns, panics or goes on to cond.wait.
WaitOnEntry(st) ==
    CASE st = "Notified" -> [state |-> "Empty", outcome |-> "return"]
      [] st = "Waiting" -> [state |-> "Waiting", outcome |-> "panic"]
      [] st = "Empty" -> [state |-> "Waiting", outcome |-> "block"]

\* A wait() that takes any wakeup of cond.wait for a notification.
WaitLoopAgain_Never(st) == FALSE

\* A wait() whose loop goes on when the state is no longer Waiting.
WaitLoopAgain_Inverted(st) == st # "Waiting"

\* Signal::wait, the loop condition `while let SignalState::Waiting = *state`.
WaitLoopAgain(st) == st = "Waiting"

\* A notify() that takes back the mark an earlier notify() left.
NotifyOnState_Toggle(st) ==
    CASE st = "Notified" -> [state |-> "Empty", wake |-> FALSE]
      [] st = "Empty" -> [state |-> "Notified", wake |-> FALSE]
      [] st = "Waiting" -> [state |-> "Empty", wake |-> TRUE]

\* A notify() that leaves a mark as well as waking the waiter.
NotifyOnState_WakeMarks(st) ==
    CASE st = "Notified" -> [state |-> "Notified", wake |-> FALSE]
      [] st = "Empty" -> [state |-> "Notified", wake |-> FALSE]
      [] st = "Waiting" -> [state |-> "Notified", wake |-> TRUE]

\* A notify() that leaves no mark when no thread is waiting.
NotifyOnState_NoMark(st) ==
    CASE st = "Notified" -> [state |-> "Notified", wake |-> FALSE]
      [] st = "Empty" -> [state |-> "Empty", wake |-> FALSE]
      [] st = "Waiting" -> [state |-> "Empty", wake |-> TRUE]

\* Signal::notify, the match on the state found under the lock: the state it
\* leaves and whether it calls cond.notify_one.
NotifyOnState(st) ==
    CASE st = "Notified" -> [state |-> "Notified", wake |-> FALSE]
      [] st = "Empty" -> [state |-> "Notified", wake |-> FALSE]
      [] st = "Waiting" -> [state |-> "Empty", wake |-> TRUE]

\* A notify_one that wakes nobody.
CondNotifyOne_None(c) == {c}

\* Condvar::notify_one: wakes one of the threads blocked in cond.wait, if any.
CondNotifyOne(c) == IF c = {} THEN {c} ELSE {c \ {t} : t \in c}

\* A wait that blocks with the mutex still held.
CondWaitLock_Held(holder) == holder

\* Condvar::wait: releases the mutex and blocks the calling thread.
CondWaitLock(holder) == NoThread

\* ---------------------------------------------------------------- Arc
ArcNewCount == 1
ArcCloneCount(c) == c + 1
ArcDropCount(c) == c - 1

\* A clone without forget(arc): the Arc made by from_raw is dropped.
VtCloneCount_NoForget(c) == ArcDropCount(ArcCloneCount(c))

\* A drop that forgets the Arc made by from_raw.
VtDropCount_Forget(c) == c

\* A clone whose Arc made by from_raw is cloned twice.
VtCloneCount_Twice(c) == ArcCloneCount(ArcCloneCount(c))

\* VTABLE clone: from_raw takes the share over, arc.clone() adds one, and
\* forget(arc) keeps the share taken over from being released.
VtCloneCount(c) == ArcCloneCount(c)

\* VTABLE wake (after notify) and VTABLE drop: drop the Arc made by from_raw.
VtWakeDropCount(c) == ArcDropCount(c)
VtDropCount(c) == ArcDropCount(c)

\* A wake_by_ref that releases the share of the waker it was called on.
VtWakeByRefCount_Release(c) == ArcDropCount(c)

\* VTABLE wake_by_ref: the Signal is borrowed, no Arc is made or dropped.
VtWakeByRefCount(c) == c

\* A scope end that leaks block_on's own Arc.
ScopeDropCount_Leak(c) == c

\* block_on's locals going out of scope.
ScopeDropCount(c) == ArcDropCount(c)

\* One share of Signal s becomes count `c2`; the Signal is deallocated when
\* the count reaches zero.  Using a deallocated Signal is undefined behaviour.
SetStrong(s, c2) ==
    /\ strong' = [strong EXCEPT ![s] = c2]
    /\ freed' = [freed EXCEPT ![s] = IF c2 = 0 /\ c2 < strong[s] THEN @ + 1 ELSE @]
    /\ ub' = (ub \/ freed[s] > 0)

Touch(s) == ub' = (ub \/ freed[s] > 0)

\* VTABLE clone on a waker of Signal s.
CloneShare(s) ==
    /\ SetStrong(s, VtCloneCount(strong[s]))
    /\ clones' = [clones EXCEPT ![s] = Sat(@)]

\* ------------------------------------------------------------ helpers
InWait(d) == pc[d] \in {"wait_lock", "wait_match", "parked", "wait_check"}
InPoll(d) == pc[d] \in {"poll", "t_lock", "t_body", "t_drop", "nested", "match"}
Finished(d) == pc[d] \in {"done", "unwound"}

\* A notify() on Signal s has been called and has not finished its match.
NotifyInProgress(s) ==
    \/ pc[s] \in {"t_lock", "t_body"}
    \/ \E n \in Notifiers : npc[n] \in {"lock", "body"} /\ nsig[n] = s

\* A notify() on Signal s completed: counted by whether wait() is in progress.
NoteDone(s) ==
    /\ notifies' = [notifies EXCEPT
                        ![s] = IF NotifyOnState(state[s]).state # state[s] THEN @ + 1 ELSE @]
    /\ IF InWait(s)
       THEN /\ nIn' = [nIn EXCEPT ![s] = Sat(@)]
            /\ UNCHANGED nDone
       ELSE /\ nDone' = [nDone EXCEPT ![s] = Sat(@)]
            /\ UNCHANGED nIn

\* A poll attempt of call d starts.
PollStarts(d) ==
    /\ polls' = [polls EXCEPT ![d] = @ + 1]
    /\ selfWoke' = [selfWoke EXCEPT ![d] = FALSE]

\* signal.wait() of call d returns.
WaitReturns(d, how) ==
    /\ pc' = [pc EXCEPT ![d] = "poll"]
    /\ waitRets' = [waitRets EXCEPT ![d] = @ + 1]
    /\ lastWait' = [lastWait EXCEPT ![d] = how]
    /\ nDone' = [nDone EXCEPT ![d] = 0]
    /\ burst' = [burst EXCEPT ![d] = nIn[d]]
    /\ PollStarts(d)

Init ==
    /\ pc = [d \in Calls |-> "idle"]
    /\ parent = [d \in Calls |-> 0]
    /\ pred = [d \in Calls |-> 0]
    /\ pollres = [d \in Calls |-> "none"]
    /\ ret = [d \in Calls |-> "none"]
    /\ panicking = [d \in Calls |-> FALSE]
    /\ tkind = [d \in Calls |-> "none"]
    /\ state = [d \in Calls |-> "unallocated"]
    /\ lock = [d \in Calls |-> NoThread]
    /\ cond = [d \in Calls |-> {}]
    /\ strong = [d \in Calls |-> 0]
    /\ freed = [d \in Calls |-> 0]
    /\ ub = FALSE
    /\ sigRef = [d \in Calls |-> 0]
    /\ wakerRef = [d \in Calls |-> 0]
    /\ taskH = [d \in Calls |-> 0]
    /\ held = [n \in Notifiers |-> [d \in Calls |-> 0]]
    /\ npc = [n \in Notifiers |-> "idle"]
    /\ nsig = [n \in Notifiers |-> 0]
    /\ nkind = [n \in Notifiers |-> "none"]
    /\ poisoned = [d \in Calls |-> FALSE]
    /\ opc = [d \in Calls |-> "idle"]
    /\ oRef = [d \in Calls |-> 0]
    /\ polls = [d \in Calls |-> 0]
    /\ waitCalls = [d \in Calls |-> 0]
    /\ waitRets = [d \in Calls |-> 0]
    /\ everParked = [d \in Calls |-> FALSE]
    /\ lastWait = [d \in Calls |-> "none"]
    /\ nDone = [d \in Calls |-> 0]
    /\ nIn = [d \in Calls |-> 0]
    /\ selfWoke = [d \in Calls |-> FALSE]
    /\ allSelf = [d \in Calls |-> TRUE]
    /\ burst = [d \in Calls |-> 0]
    /\ clones = [d \in Calls |-> 0]
    /\ notifies = [d \in Calls |-> 0]
\* ----------------------------------------------------------- block_on
\* `let signal = Arc::new(Signal::new())`: call d starts.
ArcNewSignal(d) ==
    /\ pc[d] = "idle"
    /\ \A e \in Calls : e < d => pc[e] # "idle"
    /\ pc' = [pc EXCEPT ![d] = "mk_waker"]
    /\ state' = [state EXCEPT ![d] = SignalNew]
    /\ strong' = [strong EXCEPT ![d] = ArcNewCount]
    /\ sigRef' = [sigRef EXCEPT ![d] = 1]
    /\ UNCHANGED <<poisoned, otherVars, pollres, ret, panicking, tkind, lock, cond,
                   freed, ub, wakerRef, taskH, held, npc, nsig, nkind, histVars>>

\* The task is running (pc "poll") and no nested block_on is running in it.
TaskRuns(d) ==
    /\ pc[d] = "poll"
    /\ \A c \in Calls : parent[c] = d => Finished(c)

\* block_on called on a thread of its own.
BlockOn(d) ==
    /\ ArcNewSignal(d)
    /\ UNCHANGED <<parent, pred>>

\* block_on called on the thread on which call p has returned or unwound.
BlockOnAfter(d, p) ==
    /\ Finished(p)
    /\ parent[p] = 0
    /\ \A e \in Calls : pred[e] # p
    /\ ArcNewSignal(d)
    /\ pred' = [pred EXCEPT ![d] = p]
    /\ UNCHANGED parent

\* block_on called by the task of call p, inside a poll attempt.
BlockOnNested(d, p) ==
    /\ TaskRuns(p)
    /\ ArcNewSignal(d)
    /\ parent' = [parent EXCEPT ![d] = p]
    /\ UNCHANGED pred

\* `Waker::from_raw(RawWaker::new(Arc::into_raw(signal.clone()), &VTABLE))`,
\* then the first poll attempt starts.
MakeWaker(d) ==
    /\ pc[d] = "mk_waker"
    /\ pc' = [pc EXCEPT ![d] = "poll"]
    /\ SetStrong(d, ArcCloneCount(strong[d]))
    /\ wakerRef' = [wakerRef EXCEPT ![d] = 1]
    /\ PollStarts(d)
    /\ UNCHANGED <<poisoned, otherVars, parent, pred, pollres, ret, panicking, tkind,
                   state, lock, cond,
                   sigRef, taskH, held, npc, nsig, nkind,
                   waitCalls, waitRets, everParked, lastWait, nDone, nIn, allSelf,
                   burst, clones, notifies>>

\* fut.poll returns Poll::Pending or Poll::Ready(item).
TaskReturn(d, r, cap) ==
    /\ TaskRuns(d)
    /\ r = "Pending" => polls[d] < cap
    /\ pc' = [pc EXCEPT ![d] = "match"]
    /\ pollres' = [pollres EXCEPT ![d] = r]
    /\ UNCHANGED <<poisoned, otherVars, parent, pred, ret, panicking, tkind, state,
                   lock, cond, strong, freed,
                   ub, sigRef, wakerRef, taskH, held, npc, nsig, nkind, histVars>>

\* fut.poll panics: block_on unwinds.
TaskPanic(d) ==
    /\ TaskRuns(d)
    /\ pc' = [pc EXCEPT ![d] = "drop_waker"]
    /\ panicking' = [panicking EXCEPT ![d] = TRUE]
    /\ UNCHANGED <<poisoned, otherVars, parent, pred, pollres, ret, tkind, state,
                   lock, cond, strong, freed,
                   ub, sigRef, wakerRef, taskH, held, npc, nsig, nkind, histVars>>

\* A loop that turns a completion value encoding an error into a success.
BreakItem_Swallow(item) == IF item = "err" THEN "v42" ELSE item

\* The value block_on breaks out of its loop with.
BreakItem(item) == item

\* A loop that waits after every poll attempt, ready or not.
Match_WaitAlways(d) ==
    /\ pc[d] = "match"
    /\ pc' = [pc EXCEPT ![d] = "wait_lock"]
    /\ waitCalls' = [waitCalls EXCEPT ![d] = @ + 1]
    /\ nIn' = [nIn EXCEPT ![d] = 0]
    /\ allSelf' = [allSelf EXCEPT ![d] = @ /\ selfWoke[d]]
    /\ UNCHANGED <<poisoned, otherVars, parent, pred, pollres, ret, panicking, tkind,
                   state, lock, cond,
                   strong, freed, ub, sigRef, wakerRef, taskH, held, npc, nsig, nkind,
                   polls, waitRets, everParked, lastWait, nDone, selfWoke, burst,
                   clones, notifies>>

\* A loop that polls again at once when the task reported pending.
Match_BusyPoll(d) ==
    /\ pc[d] = "match"
    /\ IF pollres[d] = "Pending"
       THEN /\ pc' = [pc EXCEPT ![d] = "poll"]
            /\ PollStarts(d)
            /\ UNCHANGED ret
       ELSE /\ pc' = [pc EXCEPT ![d] = "drop_waker"]
            /\ ret' = [ret EXCEPT ![d] = BreakItem(pollres[d])]
            /\ UNCHANGED <<polls, selfWoke>>
    /\ UNCHANGED <<poisoned, otherVars, parent, pred, pollres, panicking, tkind, state,
                   lock, cond, strong, freed, ub, sigRef, wakerRef, taskH, held, npc,
                   nsig, nkind, waitCalls, waitRets, everParked, lastWait, nDone, nIn,
                   allSelf, burst, clones, notifies>>

\* `match fut.poll(..)`: Pending calls signal.wait(), Ready(item) breaks.
Match(d) ==
    /\ pc[d] = "match"
    /\ IF pollres[d] = "Pending"
       THEN /\ pc' = [pc EXCEPT ![d] = "wait_lock"]
            /\ waitCalls' = [waitCalls EXCEPT ![d] = @ + 1]
            /\ nIn' = [nIn EXCEPT ![d] = 0]
            /\ allSelf' = [allSelf EXCEPT ![d] = @ /\ selfWoke[d]]
            /\ UNCHANGED ret
       ELSE /\ pc' = [pc EXCEPT ![d] = "drop_waker"]
            /\ ret' = [ret EXCEPT ![d] = BreakItem(pollres[d])]
            /\ UNCHANGED <<waitCalls, nIn, allSelf>>
    /\ UNCHANGED <<poisoned, otherVars, parent, pred, pollres, panicking, tkind,
                   state, lock, cond, strong,
                   freed, ub, sigRef, wakerRef, taskH, held, npc, nsig, nkind,
                   polls, waitRets, everParked, lastWait, nDone, selfWoke, burst,
                   clones, notifies>>
\* Signal::wait, `self.state.lock().unwrap()`.  (On a poisoned mutex the
\* unwrap panics; no specification below calls wait() or notify() on a
\* mutex that is poisoned already, see PoisonOnlyMetInCondWait.)
WaitLock(d) ==
    /\ pc[d] = "wait_lock"
    /\ lock[d] = NoThread
    /\ ~poisoned[d]
    /\ lock' = [lock EXCEPT ![d] = CallThread(d)]
    /\ pc' = [pc EXCEPT ![d] = "wait_match"]
    /\ Touch(d)
    /\ UNCHANGED <<poisoned, otherVars, parent, pred, pollres, ret, panicking, tkind,
                   state, cond, strong,
                   freed, sigRef, wakerRef, taskH, held, npc, nsig, nkind, histVars>>

\* Signal::wait, `match *state`: return at once, panic, or cond.wait (which
\* releases the mutex and blocks).  Returning or panicking drops the guard,
\* and a guard dropped by a panicking thread poisons the mutex.
WaitMatch(d) ==
    LET r == WaitOnEntry(state[d]) IN
    /\ pc[d] = "wait_match"
    /\ state' = [state EXCEPT ![d] = r.state]
    /\ CASE r.outcome = "return" ->
              /\ lock' = [lock EXCEPT ![d] = NoThread]
              /\ WaitReturns(d, "fast")
              /\ UNCHANGED <<cond, panicking, everParked, poisoned>>
         [] r.outcome = "block" ->
              /\ lock' = [lock EXCEPT ![d] = CondWaitLock(CallThread(d))]
              /\ cond' = [cond EXCEPT ![d] = @ \cup {CallThread(d)}]
              /\ pc' = [pc EXCEPT ![d] = "parked"]
              /\ everParked' = [everParked EXCEPT ![d] = TRUE]
              /\ UNCHANGED <<panicking, polls, waitRets, lastWait, nDone, selfWoke,
                             burst, poisoned>>
         [] r.outcome = "panic" ->
              /\ lock' = [lock EXCEPT ![d] = NoThread]
              /\ pc' = [pc EXCEPT ![d] = "drop_waker"]
              /\ panicking' = [panicking EXCEPT ![d] = TRUE]
              /\ poisoned' = [poisoned EXCEPT ![d] = TRUE]
              /\ UNCHANGED <<cond, everParked, polls, waitRets, lastWait, nDone,
                             selfWoke, burst>>
    /\ UNCHANGED <<otherVars, parent, pred, pollres, ret, tkind, strong, freed, ub,
                   sigRef,
                   wakerRef, taskH, held, npc, nsig, nkind, waitCalls, nIn, allSelf,
                   clones, notifies>>

\* A spurious wakeup of the thread blocked in cond.wait.
SpuriousWakeup(d) ==
    /\ CallThread(d) \in cond[d]
    /\ cond' = [cond EXCEPT ![d] = @ \ {CallThread(d)}]
    /\ UNCHANGED <<poisoned, otherVars, pc, parent, pred, pollres, ret, panicking,
                   tkind, state, lock,
                   strong, freed, ub, sigRef, wakerRef, taskH, held, npc, nsig, nkind,
                   histVars>>

\* `cond.wait(state).unwrap()`, woken: it takes the mutex again before it
\* returns; when the mutex is poisoned the unwrap panics (the guard inside
\* the error is dropped) and block_on unwinds.
WaitReacquire(d) ==
    /\ pc[d] = "parked"
    /\ CallThread(d) \notin cond[d]
    /\ lock[d] = NoThread
    /\ IF poisoned[d]
       THEN /\ pc' = [pc EXCEPT ![d] = "drop_waker"]
            /\ panicking' = [panicking EXCEPT ![d] = TRUE]
            /\ UNCHANGED lock
       ELSE /\ lock' = [lock EXCEPT ![d] = CallThread(d)]
            /\ pc' = [pc EXCEPT ![d] = "wait_check"]
            /\ UNCHANGED panicking
    /\ UNCHANGED <<poisoned, otherVars, parent, pred, pollres, ret, tkind, state, cond,
                   strong, freed, ub, sigRef, wakerRef, taskH, held, npc, nsig, nkind,
                   histVars>>

\* Signal::wait, `while let SignalState::Waiting = *state`: cond.wait again,
\* or leave the loop and return (dropping the guard).
WaitCheck(d) ==
    /\ pc[d] = "wait_check"
    /\ IF WaitLoopAgain(state[d])
       THEN /\ lock' = [lock EXCEPT ![d] = CondWaitLock(CallThread(d))]
            /\ cond' = [cond EXCEPT ![d] = @ \cup {CallThread(d)}]
            /\ pc' = [pc EXCEPT ![d] = "parked"]
            /\ UNCHANGED <<polls, waitRets, lastWait, nDone, selfWoke, burst>>
       ELSE /\ lock' = [lock EXCEPT ![d] = NoThread]
            /\ WaitReturns(d, "slow")
            /\ UNCHANGED cond
    /\ UNCHANGED <<poisoned, otherVars, parent, pred, pollres, ret, panicking, tkind,
                   state, strong, freed,
                   ub, sigRef, wakerRef, taskH, held, npc, nsig, nkind,
                   waitCalls, everParked, nIn, allSelf, clones, notifies>>

\* block_on returns or unwinds: `waker` goes out of scope (VTABLE drop).
DropWaker(d) ==
    /\ pc[d] = "drop_waker"
    /\ pc' = [pc EXCEPT ![d] = "drop_signal"]
    /\ SetStrong(d, VtDropCount(strong[d]))
    /\ wakerRef' = [wakerRef EXCEPT ![d] = 0]
    /\ UNCHANGED <<poisoned, otherVars, parent, pred, pollres, ret, panicking, tkind,
                   state, lock, cond,
                   sigRef, taskH, held, npc, nsig, nkind, histVars>>

\* ... then `signal` goes out of scope.
DropSignal(d) ==
    /\ pc[d] = "drop_signal"
    /\ pc' = [pc EXCEPT ![d] = "drop_fut"]
    /\ SetStrong(d, ScopeDropCount(strong[d]))
    /\ sigRef' = [sigRef EXCEPT ![d] = 0]
    /\ UNCHANGED <<poisoned, otherVars, parent, pred, pollres, ret, panicking, tkind,
                   state, lock, cond,
                   wakerRef, taskH, held, npc, nsig, nkind, histVars>>

\* ... then the parameter `fut`: every waker stored in the task is dropped
\* (VTABLE drop), and the call is over.
DropFut(d) ==
    /\ pc[d] = "drop_fut"
    /\ IF taskH[d] > 0
       THEN /\ SetStrong(d, VtDropCount(strong[d]))
            /\ taskH' = [taskH EXCEPT ![d] = @ - 1]
            /\ UNCHANGED pc
       ELSE /\ pc' = [pc EXCEPT ![d] = IF panicking[d] THEN "unwound" ELSE "done"]
            /\ UNCHANGED <<strong, freed, ub, taskH>>
    /\ UNCHANGED <<poisoned, otherVars, parent, pred, pollres, ret, panicking, tkind,
                   state, lock, cond,
                   sigRef, wakerRef, held, npc, nsig, nkind, histVars>>
\* ------------------------------------------------------ Signal::notify
\* Signal::notify, `self.state.lock().unwrap()` by thread `who`.
NotifyAcquire(s, who) ==
    /\ lock[s] = NoThread
    /\ ~poisoned[s]
    /\ lock' = [lock EXCEPT ![s] = who]
    /\ Touch(s)

\* Signal::notify, `match *state` under the lock, then the guard is dropped.
NotifyApply(s) ==
    LET r == NotifyOnState(state[s]) IN
    /\ state' = [state EXCEPT ![s] = r.state]
    /\ IF r.wake
       THEN \E c \in CondNotifyOne(cond[s]) : cond' = [cond EXCEPT ![s] = c]
       ELSE UNCHANGED cond
    /\ lock' = [lock EXCEPT ![s] = NoThread]
    /\ NoteDone(s)

\* ------------------------------------- the task, inside a poll attempt
\* `cx.waker().wake_by_ref()` (k = "ref"), or `wake()` of a waker the task
\* stored (k = "wake"): VTABLE wake_by_ref / wake call Signal::notify.
TaskWake(d, k) ==
    /\ TaskRuns(d)
    /\ k = "wake" => taskH[d] > 0
    /\ pc' = [pc EXCEPT ![d] = "t_lock"]
    /\ tkind' = [tkind EXCEPT ![d] = k]
    /\ UNCHANGED <<poisoned, otherVars, parent, pred, pollres, ret, panicking, state,
                   lock, cond, strong,
                   freed, ub, sigRef, wakerRef, taskH, held, npc, nsig, nkind,
                   histVars>>

TaskNotifyLock(d) ==
    /\ pc[d] = "t_lock"
    /\ NotifyAcquire(d, CallThread(d))
    /\ pc' = [pc EXCEPT ![d] = "t_body"]
    /\ UNCHANGED <<poisoned, otherVars, parent, pred, pollres, ret, panicking, tkind,
                   state, cond, strong,
                   freed, sigRef, wakerRef, taskH, held, npc, nsig, nkind, histVars>>

TaskNotifyBody(d) ==
    /\ pc[d] = "t_body"
    /\ NotifyApply(d)
    /\ pc' = [pc EXCEPT ![d] = IF tkind[d] = "wake" THEN "t_drop" ELSE "poll"]
    /\ tkind' = [tkind EXCEPT ![d] = IF tkind[d] = "wake" THEN @ ELSE "none"]
    /\ selfWoke' = [selfWoke EXCEPT ![d] = TRUE]
    /\ SetStrong(d, IF tkind[d] = "wake" THEN strong[d] ELSE VtWakeByRefCount(strong[d]))
    /\ UNCHANGED <<poisoned, otherVars, parent, pred, pollres, ret, panicking,
                   sigRef, wakerRef,
                   taskH, held, npc, nsig, nkind, polls, waitCalls, waitRets,
                   everParked, lastWait, allSelf, burst, clones>>

\* VTABLE wake, `drop(arc)` after the notify.
TaskWakeDrop(d) ==
    /\ pc[d] = "t_drop"
    /\ pc' = [pc EXCEPT ![d] = "poll"]
    /\ tkind' = [tkind EXCEPT ![d] = "none"]
    /\ SetStrong(d, VtWakeDropCount(strong[d]))
    /\ taskH' = [taskH EXCEPT ![d] = @ - 1]
    /\ UNCHANGED <<poisoned, otherVars, parent, pred, pollres, ret, panicking, state,
                   lock, cond,
                   sigRef, wakerRef, held, npc, nsig, nkind, histVars>>

\* `cx.waker().clone()`, kept inside the task (VTABLE clone).
TaskClone(d) ==
    /\ TaskRuns(d)
    /\ strong[d] < MaxStrong
    /\ CloneShare(d)
    /\ taskH' = [taskH EXCEPT ![d] = @ + 1]
    /\ UNCHANGED <<poisoned, otherVars, pc, parent, pred, pollres, ret, panicking,
                   tkind, state, lock, cond,
                   sigRef, wakerRef, held, npc, nsig, nkind, polls, waitCalls, waitRets,
                   everParked, lastWait, nDone, nIn, selfWoke, allSelf, burst,
                   notifies>>

\* `tx.send(cx.waker().clone())`: a clone handed to notifier thread n.
TaskSend(d, n, cap) ==
    /\ TaskRuns(d)
    /\ strong[d] < cap
    /\ CloneShare(d)
    /\ held' = [held EXCEPT ![n][d] = @ + 1]
    /\ UNCHANGED <<poisoned, otherVars, pc, parent, pred, pollres, ret, panicking,
                   tkind, state, lock, cond,
                   sigRef, wakerRef, taskH, npc, nsig, nkind, polls, waitCalls,
                   waitRets,
                   everParked, lastWait, nDone, nIn, selfWoke, allSelf, burst,
                   notifies>>

\* The task drops a waker it stored (VTABLE drop).
TaskDrop(d) ==
    /\ TaskRuns(d)
    /\ taskH[d] > 0
    /\ SetStrong(d, VtDropCount(strong[d]))
    /\ taskH' = [taskH EXCEPT ![d] = @ - 1]
    /\ UNCHANGED <<poisoned, otherVars, pc, parent, pred, pollres, ret, panicking,
                   tkind, state, lock, cond,
                   sigRef, wakerRef, held, npc, nsig, nkind, histVars>>

\* ------------------------------------------------- notifier threads
\* `waker.wake()` (k = "wake") or `waker.wake_by_ref()` (k = "ref") on a
\* waker of Signal s the thread holds.
NotifierWake(n, s, k) ==
    /\ npc[n] = "idle"
    /\ held[n][s] > 0
    /\ npc' = [npc EXCEPT ![n] = "lock"]
    /\ nsig' = [nsig EXCEPT ![n] = s]
    /\ nkind' = [nkind EXCEPT ![n] = k]
    /\ UNCHANGED <<poisoned, otherVars, pc, parent, pred, pollres, ret, panicking,
                   tkind, state, lock, cond,
                   strong, freed, ub, sigRef, wakerRef, taskH, held, histVars>>

NotifierLock(n) ==
    /\ npc[n] = "lock"
    /\ NotifyAcquire(nsig[n], NotifierThread(n))
    /\ npc' = [npc EXCEPT ![n] = "body"]
    /\ UNCHANGED <<poisoned, otherVars, pc, parent, pred, pollres, ret, panicking,
                   tkind, state, cond,
                   strong, freed, sigRef, wakerRef, taskH, held, nsig, nkind, histVars>>

NotifierBody(n) ==
    /\ npc[n] = "body"
    /\ NotifyApply(nsig[n])
    /\ npc' = [npc EXCEPT ![n] = IF nkind[n] = "wake" THEN "drop" ELSE "idle"]
    /\ nsig' = [nsig EXCEPT ![n] = IF nkind[n] = "wake" THEN @ ELSE 0]
    /\ nkind' = [nkind EXCEPT ![n] = IF nkind[n] = "wake" THEN @ ELSE "none"]
    /\ SetStrong(nsig[n], IF nkind[n] = "wake" THEN strong[nsig[n]]
                          ELSE VtWakeByRefCount(strong[nsig[n]]))
    /\ UNCHANGED <<poisoned, otherVars, pc, parent, pred, pollres, ret, panicking,
                   tkind, sigRef, wakerRef,
                   taskH, held, polls, waitCalls, waitRets, everParked,
                   lastWait, selfWoke, allSelf, burst, clones>>

\* VTABLE wake, `drop(arc)` after the notify.
NotifierWakeDrop(n) ==
    /\ npc[n] = "drop"
    /\ npc' = [npc EXCEPT ![n] = "idle"]
    /\ nsig' = [nsig EXCEPT ![n] = 0]
    /\ nkind' = [nkind EXCEPT ![n] = "none"]
    /\ SetStrong(nsig[n], VtWakeDropCount(strong[nsig[n]]))
    /\ held' = [held EXCEPT ![n][nsig[n]] = @ - 1]
    /\ UNCHANGED <<poisoned, otherVars, pc, parent, pred, pollres, ret, panicking,
                   tkind, state, lock, cond,
                   sigRef, wakerRef, taskH, histVars>>

\* `waker.clone()` by a notifier thread (VTABLE clone).
NotifierClone(n, s) ==
    /\ npc[n] = "idle"
    /\ held[n][s] > 0
    /\ strong[s] < MaxStrong
    /\ CloneShare(s)
    /\ held' = [held EXCEPT ![n][s] = @ + 1]
    /\ UNCHANGED <<poisoned, otherVars, pc, parent, pred, pollres, ret, panicking,
                   tkind, state, lock, cond,
                   sigRef, wakerRef, taskH, npc, nsig, nkind, polls, waitCalls,
                   waitRets,
                   everParked, lastWait, nDone, nIn, selfWoke, allSelf, burst,
                   notifies>>

\* `drop(waker)` by a notifier thread (VTABLE drop).
NotifierDrop(n, s) ==
    /\ npc[n] = "idle"
    /\ held[n][s] > 0
    /\ SetStrong(s, VtDropCount(strong[s]))
    /\ held' = [held EXCEPT ![n][s] = @ - 1]
    /\ UNCHANGED <<poisoned, otherVars, pc, parent, pred, pollres, ret, panicking,
                   tkind, state, lock, cond,
                   sigRef, wakerRef, taskH, npc, nsig, nkind, histVars>>

\* ------------------------------- Signal::wait called by another thread
\* What the driver, its task and the notifier threads do is left alone by
\* the steps of the other thread.
OtherFrame ==
    UNCHANGED <<pc, parent, pred, pollres, ret, panicking, tkind, sigRef, wakerRef,
                taskH, held, npc, nsig, nkind, histVars>>

\* A thread that was given a clone of the Arc<Signal> of call s calls
\* wait() on it: the use block_on never makes of its Signal.
OtherWaitCall(s) ==
    /\ opc[s] = "idle"
    /\ sigRef[s] = 1
    /\ opc' = [opc EXCEPT ![s] = "lock"]
    /\ oRef' = [oRef EXCEPT ![s] = 1]
    /\ SetStrong(s, ArcCloneCount(strong[s]))
    /\ OtherFrame
    /\ UNCHANGED <<state, lock, cond, poisoned>>

\* Signal::wait, `self.state.lock().unwrap()`.
OtherWaitLock(s) ==
    /\ opc[s] = "lock"
    /\ lock[s] = NoThread
    /\ ~poisoned[s]
    /\ lock' = [lock EXCEPT ![s] = OtherThread(s)]
    /\ opc' = [opc EXCEPT ![s] = "match"]
    /\ Touch(s)
    /\ OtherFrame
    /\ UNCHANGED <<state, cond, poisoned, oRef, strong, freed>>

\* Signal::wait, `match *state`.
OtherWaitMatch(s) ==
    LET r == WaitOnEntry(state[s]) IN
    /\ opc[s] = "match"
    /\ state' = [state EXCEPT ![s] = r.state]
    /\ CASE r.outcome = "return" ->
              /\ lock' = [lock EXCEPT ![s] = NoThread]
              /\ opc' = [opc EXCEPT ![s] = "returned"]
              /\ UNCHANGED <<cond, poisoned>>
         [] r.outcome = "block" ->
              /\ lock' = [lock EXCEPT ![s] = CondWaitLock(OtherThread(s))]
              /\ cond' = [cond EXCEPT ![s] = @ \cup {OtherThread(s)}]
              /\ opc' = [opc EXCEPT ![s] = "parked"]
              /\ UNCHANGED poisoned
         [] r.outcome = "panic" ->
              /\ lock' = [lock EXCEPT ![s] = NoThread]
              /\ opc' = [opc EXCEPT ![s] = "panicked"]
              /\ poisoned' = [poisoned EXCEPT ![s] = TRUE]
              /\ UNCHANGED cond
    /\ OtherFrame
    /\ UNCHANGED <<oRef, strong, freed, ub>>

\* A spurious wakeup of the other thread.
OtherSpuriousWakeup(s) ==
    /\ OtherThread(s) \in cond[s]
    /\ cond' = [cond EXCEPT ![s] = @ \ {OtherThread(s)}]
    /\ OtherFrame
    /\ UNCHANGED <<state, lock, poisoned, otherVars, strong, freed, ub>>

\* `cond.wait(state).unwrap()`, woken.
OtherWaitReacquire(s) ==
    /\ opc[s] = "parked"
    /\ OtherThread(s) \notin cond[s]
    /\ lock[s] = NoThread
    /\ IF poisoned[s]
       THEN /\ opc' = [opc EXCEPT ![s] = "panicked"]
            /\ UNCHANGED lock
       ELSE /\ lock' = [lock EXCEPT ![s] = OtherThread(s)]
            /\ opc' = [opc EXCEPT ![s] = "check"]
    /\ OtherFrame
    /\ UNCHANGED <<state, cond, poisoned, oRef, strong, freed, ub>>

\* Signal::wait, `while let SignalState::Waiting = *state`.
OtherWaitCheck(s) ==
    /\ opc[s] = "check"
    /\ IF WaitLoopAgain(state[s])
       THEN /\ lock' = [lock EXCEPT ![s] = CondWaitLock(OtherThread(s))]
            /\ cond' = [cond EXCEPT ![s] = @ \cup {OtherThread(s)}]
            /\ opc' = [opc EXCEPT ![s] = "parked"]
       ELSE /\ lock' = [lock EXCEPT ![s] = NoThread]
            /\ opc' = [opc EXCEPT ![s] = "returned"]
            /\ UNCHANGED cond
    /\ OtherFrame
    /\ UNCHANGED <<state, poisoned, oRef, strong, freed, ub>>

\* wait() returned or panicked: the thread drops its Arc.
OtherDrop(s) ==
    /\ opc[s] \in {"returned", "panicked"}
    /\ opc' = [opc EXCEPT ![s] = "gone"]
    /\ oRef' = [oRef EXCEPT ![s] = 0]
    /\ SetStrong(s, ArcDropCount(strong[s]))
    /\ OtherFrame
    /\ UNCHANGED <<state, lock, cond, poisoned>>

\* ------------------------------------------------------ specification
WakeKinds == {"wake", "ref"}
PollResults == {"Pending"} \cup Values

\* The steps of the block_on calls in C and of the tasks they drive.
DriverNext(C) ==
    \/ \E d \in C : MakeWaker(d)
    \/ \E d \in C, r \in PollResults : TaskReturn(d, r, MaxPolls)
    \/ \E d \in C : Match(d)
    \/ \E d \in C : WaitLock(d)
    \/ \E d \in C : WaitMatch(d)
    \/ \E d \in C : SpuriousWakeup(d)
    \/ \E d \in C : WaitReacquire(d)
    \/ \E d \in C : WaitCheck(d)
    \/ \E d \in C : DropWaker(d)
    \/ \E d \in C : DropSignal(d)
    \/ \E d \in C : DropFut(d)
    \/ \E d \in C, k \in WakeKinds : TaskWake(d, k)
    \/ \E d \in C : TaskNotifyLock(d)
    \/ \E d \in C : TaskNotifyBody(d)
    \/ \E d \in C, n \in Notifiers : TaskSend(d, n, MaxStrong)

\* What else a task may do with wakers, and its panic.
TaskNext(C) ==
    \/ \E d \in C : TaskPanic(d)
    \/ \E d \in C : TaskWakeDrop(d)
    \/ \E d \in C : TaskClone(d)
    \/ \E d \in C : TaskDrop(d)

\* The notifier threads waking through the wakers they were sent.
NotifierNext(C) ==
    \/ \E n \in Notifiers, s \in C, k \in WakeKinds : NotifierWake(n, s, k)
    \/ \E n \in Notifiers : NotifierLock(n)
    \/ \E n \in Notifiers : NotifierBody(n)
    \/ \E n \in Notifiers : NotifierWakeDrop(n)

\* What else a notifier thread may do with its wakers.
HandleNext(C) ==
    \/ \E n \in Notifiers, s \in C : NotifierClone(n, s)
    \/ \E n \in Notifiers, s \in C : NotifierDrop(n, s)

\* One block_on call, its task free to use its wakers in every way, and the
\* notifier threads.
Next ==
    \/ BlockOn(1)
    \/ DriverNext({1})
    \/ TaskNext({1})
    \/ NotifierNext({1})
    \/ HandleNext({1})

Spec == Init /\ [][Next]_vars

\* Fair scheduling: a thread that can take its next step takes it, and a
\* thread waiting for the mutex gets it when it is free again and again.
\* What the task does in a poll attempt, what the notifier threads do with
\* their wakers and the spurious wakeups are not forced.
ThreadSteps(d) ==
    \/ MakeWaker(d) \/ Match(d) \/ WaitLock(d) \/ WaitMatch(d) \/ WaitReacquire(d)
    \/ WaitCheck(d) \/ DropWaker(d) \/ DropSignal(d) \/ DropFut(d)
    \/ TaskNotifyLock(d) \/ TaskNotifyBody(d) \/ TaskWakeDrop(d)

NotifierSteps(n) == NotifierLock(n) \/ NotifierBody(n) \/ NotifierWakeDrop(n)

Fairness ==
    /\ \A d \in {1} : SF_vars(ThreadSteps(d))
    /\ \A n \in Notifiers : SF_vars(NotifierSteps(n))

SpecFair == Spec /\ Fairness

\* Several block_on calls: on threads of their own, one after the other on
\* one thread, or nested in a poll attempt.  Their tasks send wakers to the
\* notifier threads, which wake() them, as in benches/main.rs.
NextCalls ==
    \/ \E d \in Calls : BlockOn(d)
    \/ \E d, p \in Calls : BlockOnAfter(d, p)
    \/ \E d, p \in Calls : BlockOnNested(d, p)
    \/ \E d \in Calls : MakeWaker(d)
    \/ \E d \in Calls, r \in PollResults : TaskReturn(d, r, CallsMaxPolls)
    \/ \E d \in Calls : Match(d)
    \/ \E d \in Calls : WaitLock(d)
    \/ \E d \in Calls : WaitMatch(d)
    \/ \E d \in Calls : SpuriousWakeup(d)
    \/ \E d \in Calls : WaitReacquire(d)
    \/ \E d \in Calls : WaitCheck(d)
    \/ \E d \in Calls : DropWaker(d)
    \/ \E d \in Calls : DropSignal(d)
    \/ \E d \in Calls : DropFut(d)
    \/ \E d \in Calls, n \in Notifiers : TaskSend(d, n, CallsMaxStrong)
    \/ \E n \in Notifiers, s \in Calls : NotifierWake(n, s, "wake")
    \/ \E n \in Notifiers : NotifierLock(n)
    \/ \E n \in Notifiers : NotifierBody(n)
    \/ \E n \in Notifiers : NotifierWakeDrop(n)

SpecCalls == Init /\ [][NextCalls]_vars

\* One block_on call whose task wakes itself, and another thread that calls
\* wait() on the call's Signal.
NextWaiters ==
    \/ BlockOn(1)
    \/ MakeWaker(1)
    \/ \E r \in PollResults : TaskReturn(1, r, WaitersMaxPolls)
    \/ Match(1)
    \/ WaitLock(1)
    \/ WaitMatch(1)
    \/ SpuriousWakeup(1)
    \/ WaitReacquire(1)
    \/ WaitCheck(1)
    \/ DropWaker(1)
    \/ DropSignal(1)
    \/ DropFut(1)
    \/ TaskWake(1, "ref")
    \/ TaskNotifyLock(1)
    \/ TaskNotifyBody(1)
    \/ OtherWaitCall(1)
    \/ OtherWaitLock(1)
    \/ OtherWaitMatch(1)
    \/ OtherSpuriousWakeup(1)
    \/ OtherWaitReacquire(1)
    \/ OtherWaitCheck(1)
    \/ OtherDrop(1)

SpecWaiters == Init /\ [][NextWaiters]_vars
\* =============================================================== claims
\* The driver of call d takes a step (its pc changes).
DriverStep(d) == pc'[d] # pc[d]

\* C1: no missed wakeup.  When a notify() on the Signal completed before the
\* driver's wait() began, with no other wait() in between (nDone >= 1), that
\* wait() finds Notified under the lock, sets Empty and returns without
\* blocking in cond.wait.
C1_NoMissedWakeup ==
    [][\A d \in Calls :
         (pc[d] = "wait_match" /\ nDone[d] >= 1 /\ DriverStep(d)) =>
            /\ state[d] = "Notified"
            /\ state'[d] = "Empty"
            /\ pc'[d] = "poll"
            /\ waitRets'[d] = waitRets[d] + 1
            /\ cond'[d] = cond[d]
            /\ everParked'[d] = everParked[d]]_vars

\* A first wait() that returned at once: the driver never blocked.
C1_Witness ==
    \E d \in Calls :
        /\ lastWait[d] = "fast"
        /\ waitRets[d] = 1
        /\ ~everParked[d]
        /\ state[d] = "Empty"
\* The task of call d reported pending and the driver has not been woken yet.
Pended(d) == (pc[d] = "match" /\ pollres[d] = "Pending") \/ InWait(d)

\* notify() was called on the Signal of d after the poll attempt started: it
\* completed (before wait() was called, or during it) or is in progress.
Noted(d) ==
    \/ nDone[d] >= 1
    \/ InWait(d) /\ nIn[d] >= 1
    \/ NotifyInProgress(d)

\* C2: liveness of the handshake.  Under fair scheduling, once the task has
\* reported pending and notify() has been called after that poll attempt
\* started, wait() returns and the task is polled again; and a block_on
\* whose task reported ready returns.
C2_HandshakeLive ==
    /\ \A d \in Calls : (Pended(d) /\ Noted(d)) ~> (pc[d] = "poll")
    /\ \A d \in Calls :
          (pc[d] = "match" /\ pollres[d] \in Values) ~> (pc[d] = "done")

\* The driver blocked in cond.wait, was notified and polls the task again.
C2_Witness ==
    \E d \in Calls :
        /\ pc[d] = "poll"
        /\ lastWait[d] = "slow"
        /\ everParked[d]
        /\ nIn[d] >= 1
        /\ polls[d] = 2

\* The mutex of Signal s is held only by a thread that is inside the match
\* of wait() or notify() (or wait()'s loop condition), never across a poll
\* attempt and never while blocked in cond.wait.
LockHeldBriefly ==
    \A s \in Calls :
        /\ \A d \in Calls :
              lock[s] = CallThread(d) =>
                 d = s /\ pc[d] \in {"wait_match", "wait_check", "t_body"}
        /\ \A n \in Notifiers :
              lock[s] = NotifierThread(n) => npc[n] = "body" /\ nsig[n] = s

\* Whoever holds the mutex of Signal s can take the step that releases it.
HolderCanRelease ==
    \A s \in Calls :
        lock[s] # NoThread =>
            ENABLED (\/ WaitMatch(s) \/ WaitCheck(s) \/ TaskNotifyBody(s)
                     \/ \E n \in Notifiers : nsig[n] = s /\ NotifierBody(n))

\* C3: deadlock freedom.  The mutex is never held across a poll attempt or
\* while the driver is blocked in cond.wait, its holder can always release
\* it, and every notify() that was called (by a notifier thread or by the
\* task on the driver thread) runs to completion.
C3_DeadlockFree ==
    /\ [](LockHeldBriefly /\ HolderCanRelease)
    /\ \A n \in Notifiers : (npc[n] # "idle") ~> (npc[n] = "idle")
    /\ \A d \in Calls : (pc[d] \in {"t_lock", "t_body", "t_drop"}) ~> (pc[d] = "poll")

\* A notifier thread has called notify() and waits for the mutex, which the
\* driver holds inside wait().
C3_Witness ==
    \E n \in Notifiers, d \in Calls :
        /\ npc[n] = "lock"
        /\ nsig[n] = d
        /\ lock[d] = CallThread(d)
        /\ pc[d] = "wait_check"
\* The task of call d reported ready on its first poll attempt.
ReadyFirst(d) == polls[d] = 1 /\ pollres[d] \in Values

\* C4: a task that is ready on its first poll attempt.  block_on goes
\* straight to its return with that value: one poll attempt, no call of
\* wait(), and the Signal state is changed by nothing but a notify()
\* (Empty, or Notified once a notify() completed).
C4_ReadyFirstPoll ==
    \A d \in Calls :
        ReadyFirst(d) =>
            /\ pc[d] \in {"match", "drop_waker", "drop_signal", "drop_fut", "done"}
            /\ waitCalls[d] = 0
            /\ waitRets[d] = 0
            /\ ~everParked[d]
            /\ state[d] \in {"Empty", "Notified"}
            /\ state[d] = "Notified" => nDone[d] >= 1
            /\ pc[d] # "match" => ret[d] = pollres[d]

\* block_on returned 42 after one poll attempt and no wait().
C4_Witness ==
    \E d \in Calls :
        /\ pc[d] = "done"
        /\ polls[d] = 1
        /\ ret[d] = "v42"
        /\ waitCalls[d] = 0
        /\ state[d] = "Empty"

\* C5: self-wake during a poll attempt.  When the task completed a notify()
\* on its own waker in the poll attempt that reported pending, the wait()
\* that follows finds Notified, sets Empty and returns at once, and the
\* task is polled again; a driver whose task did so in every pending poll
\* attempt never blocks in cond.wait.
C5_SelfWake ==
    /\ [](\A d \in Calls : allSelf[d] => ~everParked[d])
    /\ [][\A d \in Calls :
            (pc[d] = "wait_match" /\ selfWoke[d] /\ DriverStep(d)) =>
               /\ state[d] = "Notified"
               /\ state'[d] = "Empty"
               /\ pc'[d] = "poll"
               /\ polls'[d] = polls[d] + 1
               /\ everParked'[d] = everParked[d]]_vars

\* The task woke itself in its first poll attempt, was ready in the second,
\* and block_on returned without having blocked.
C5_Witness ==
    \E d \in Calls :
        /\ pc[d] = "done"
        /\ polls[d] = 2
        /\ allSelf[d]
        /\ lastWait[d] = "fast"
        /\ ~everParked[d]

\* No notify() on the Signal of d has completed since wait() last returned,
\* and none is in progress.
Quiet(d) == nDone[d] = 0 /\ nIn[d] = 0 /\ ~NotifyInProgress(d)

\* wait() of call d has not yet looked at the state.
BeforeMatch(d) == InPoll(d) \/ pc[d] \in {"wait_lock", "wait_match"}

\* C6: notify() is idempotent when no wait() is in progress.  One notify()
\* or several (nDone counts them) leave the same state, Notified, for the
\* next wait(); and after a wait() that returned at once the state is Empty
\* until the next notify(), so a second wait() would block.
C6_NotifyIdempotent ==
    \A d \in Calls :
        /\ (nDone[d] >= 1 /\ ~InWait(d)) => state[d] = "Notified"
        /\ (nDone[d] >= 1 /\ pc[d] = "wait_match" /\ nIn[d] = 0) => state[d] = "Notified"
        /\ (lastWait[d] = "fast" /\ BeforeMatch(d) /\ Quiet(d)) => state[d] = "Empty"

\* Two notify() calls completed before the wait() that is about to look at
\* the state.
C6_Witness ==
    \E d \in Calls :
        /\ nDone[d] >= 2
        /\ pc[d] = "wait_match"
        /\ state[d] = "Notified"

\* C7 as stated: after a wait() that blocked and was woken by a burst of
\* notify() calls, the next wait() blocks when no further notify() came.
C7_OneWakePerBurst ==
    \A d \in Calls :
        (pc[d] = "wait_match" /\ lastWait[d] = "slow" /\ burst[d] >= 1 /\ Quiet(d))
            => state[d] = "Empty"

\* C7, amended: the notify() that finds Waiting wakes the driver and sets
\* Empty; a second notify() of the burst, completing before wait() has
\* returned, finds Empty and leaves Notified.  So after a burst of one the
\* next wait() blocks, after a burst of two or more it returns at once
\* (one extra poll attempt), and the wait() after a wait() that returned at
\* once blocks: a burst never pays for more than two returns.
C7_AtMostOneExtraWake ==
    \A d \in Calls :
        (pc[d] = "wait_match" /\ Quiet(d)) =>
            /\ lastWait[d] = "slow" => burst[d] >= 1
            /\ (lastWait[d] = "slow" /\ burst[d] = 1) => state[d] = "Empty"
            /\ (lastWait[d] = "slow" /\ burst[d] >= 2) => state[d] = "Notified"
            /\ lastWait[d] = "fast" => state[d] = "Empty"

\* A burst of two woke the driver; with no further notify() the next wait()
\* finds Notified.
C7_Witness ==
    \E d \in Calls :
        /\ pc[d] = "wait_match"
        /\ lastWait[d] = "slow"
        /\ burst[d] >= 2
        /\ Quiet(d)
        /\ state[d] = "Notified"
\* C8: single waiter.  No block_on call ever reaches the `unreachable!` of
\* wait(): wait() never finds Waiting, no call panics (the tasks of
\* SpecCalls do not), no thread leaves wait() with the state still Waiting,
\* and the only thread ever blocked on the condition variable of a Signal
\* is the driver that created it, whether the calls run on threads of
\* their own, one after the other, or nested.
C8_SingleWaiter ==
    \A d \in Calls :
        /\ ~panicking[d]
        /\ pc[d] # "unwound"
        /\ pc[d] \in {"wait_lock", "wait_match"} => state[d] # "Waiting"
        /\ ~InWait(d) => state[d] # "Waiting"
        /\ cond[d] \subseteq {CallThread(d)}

\* Two block_on calls are blocked at once, each on its own Signal.
C8_Witness ==
    \E d, e \in Calls :
        /\ d # e
        /\ pc[d] = "parked" /\ state[d] = "Waiting" /\ cond[d] = {CallThread(d)}
        /\ pc[e] = "parked" /\ state[e] = "Waiting" /\ cond[e] = {CallThread(e)}

\* The wakers of Signal s that notifier threads 1..n hold.
RECURSIVE HeldUpTo(_, _)
HeldUpTo(s, n) == IF n = 0 THEN 0 ELSE held[n][s] + HeldUpTo(s, n - 1)

\* The live owners of Signal s: block_on's `signal` and `waker`, the wakers
\* stored in the task, the wakers held by notifier threads and the Arc of
\* the other thread calling wait().
Owners(s) ==
    sigRef[s] + wakerRef[s] + taskH[s] + HeldUpTo(s, NumNotifiers) + oRef[s]

\* C9: reference-count correctness.  However many clones were made and in
\* whatever order and on whatever thread the copies are dropped or consumed
\* by wake, the Signal is deallocated exactly when the last copy is gone,
\* and never twice.
C9_DeallocOnce ==
    \A s \in Calls :
        /\ freed[s] \in {0, 1}
        /\ state[s] # "unallocated" => (freed[s] = 1 <=> Owners(s) = 0)

\* Two clones were made and every copy is gone: the Signal was deallocated.
C9_Witness ==
    \E s \in Calls :
        /\ clones[s] >= 2
        /\ Owners(s) = 0
        /\ freed[s] = 1

\* C10: ownership invariant.  The strong count is the number of live
\* owners, so the Signal is not deallocated while a waker exists, no
\* operation uses a deallocated Signal and no share is released twice.
C10_OwnershipInvariant ==
    /\ ~ub
    /\ \A s \in Calls :
        /\ strong[s] = Owners(s)
        /\ strong[s] >= 0
        /\ Owners(s) > 0 => freed[s] = 0

\* block_on has returned; a notifier thread is inside notify() through a
\* waker that outlived the call.
C10_Witness ==
    \E s \in Calls, n \in Notifiers :
        /\ pc[s] = "done"
        /\ npc[n] = "body"
        /\ nsig[n] = s
        /\ held[n][s] >= 1
        /\ strong[s] = held[n][s]
        /\ freed[s] = 0

\* The count of notify() calls that changed the state of Signal s, after
\* one more notify(): only one that finds Notified changes nothing.
OneMoreNotify(s) ==
    IF state[s] = "Notified" THEN notifies[s] ELSE notifies[s] + 1

\* C11: share effect of the two wake operations, on a notifier thread and
\* inside the task.  Calling the operation and taking the mutex change
\* neither the share count nor the state; then notify() runs once, with the
\* share count unchanged; wake_by_ref ends there, its waker still held and
\* usable again; wake goes on to drop its Arc, which decreases the share
\* count by exactly one, takes the waker away and runs no second notify().
C11_WakeShareEffect ==
    [][/\ \A n \in Notifiers :
            /\ (npc[n] \in {"idle", "lock"} /\ npc'[n] # npc[n]) =>
                  /\ strong' = strong /\ held' = held
                  /\ state' = state /\ notifies' = notifies
            /\ (npc[n] = "body" /\ npc'[n] # "body") =>
                  /\ notifies'[nsig[n]] = OneMoreNotify(nsig[n])
                  /\ state'[nsig[n]] = NotifyOnState(state[nsig[n]]).state
                  /\ strong' = strong /\ held' = held
                  /\ nkind[n] = "ref" =>
                        /\ npc'[n] = "idle"
                        /\ held'[n][nsig[n]] >= 1
                        /\ freed'[nsig[n]] = 0
                  /\ nkind[n] = "wake" => npc'[n] = "drop"
            /\ (npc[n] = "drop" /\ npc'[n] # "drop") =>
                  /\ npc'[n] = "idle"
                  /\ strong'[nsig[n]] = strong[nsig[n]] - 1
                  /\ held'[n][nsig[n]] = held[n][nsig[n]] - 1
                  /\ state' = state /\ notifies' = notifies
       /\ \A d \in Calls :
            /\ (pc[d] = "t_lock" /\ pc'[d] # "t_lock") =>
                  /\ strong' = strong /\ taskH' = taskH
                  /\ state' = state /\ notifies' = notifies
            /\ (pc[d] = "t_body" /\ pc'[d] # "t_body") =>
                  /\ notifies'[d] = OneMoreNotify(d)
                  /\ state'[d] = NotifyOnState(state[d]).state
                  /\ strong' = strong /\ taskH' = taskH
                  /\ tkind[d] = "ref" => pc'[d] = "poll" /\ wakerRef'[d] = 1
                  /\ tkind[d] = "wake" => pc'[d] = "t_drop"
            /\ (pc[d] = "t_drop" /\ pc'[d] # "t_drop") =>
                  /\ pc'[d] = "poll"
                  /\ strong'[d] = strong[d] - 1
                  /\ taskH'[d] = taskH[d] - 1
                  /\ state' = state /\ notifies' = notifies]_vars

\* A notifier thread that was sent one waker notified through it by
\* wake_by_ref, then called wake on it: notify() ran a second time and the
\* Arc is about to be dropped.
C11_Witness ==
    \E n \in Notifiers, s \in Calls :
        /\ npc[n] = "drop" /\ nsig[n] = s /\ nkind[n] = "wake"
        /\ clones[s] = 1 /\ held[n][s] = 1
        /\ polls[s] = 1 /\ ~selfWoke[s]
        /\ nDone[s] = 2
        /\ strong[s] = 3

\* A step in which a waker of Signal s is cloned: the task or a notifier
\* thread holds one more.
CloneStep(s) ==
    \/ taskH'[s] > taskH[s]
    \/ \E n \in Notifiers : held'[n][s] > held[n][s]

\* A step in which a waker of Signal s is dropped without a wake: by the
\* task, by a notifier thread, or by block_on at its end.
DropStep(s) ==
    \/ taskH'[s] < taskH[s] /\ pc[s] # "t_drop"
    \/ \E n \in Notifiers : held'[n][s] < held[n][s] /\ npc[n] # "drop"
    \/ wakerRef'[s] < wakerRef[s]

\* C12: clone and drop of a waker leave the Signal alone.  Whatever the
\* state and wherever the driver and the notifying threads are, the step
\* leaves the state, the mutex and the threads blocked on the condition
\* variable as they were, completes no notify() and no wait(), moves no
\* driver that is inside wait(), and changes the share count by exactly
\* one: up for a clone, down for a drop.
C12_HandleOpsKeepState ==
    [][\A s \in Calls :
         /\ CloneStep(s) => strong'[s] = strong[s] + 1
         /\ DropStep(s) => strong'[s] = strong[s] - 1
         /\ (CloneStep(s) \/ DropStep(s)) =>
               /\ state' = state /\ lock' = lock /\ cond' = cond
               /\ notifies' = notifies /\ waitRets' = waitRets
               /\ polls' = polls
               /\ \A d \in Calls : InWait(d) => pc'[d] = pc[d]]_vars

\* The driver is blocked in cond.wait, state Waiting, while a notifier
\* thread holds two wakers, clones of the driver's; an earlier wait() had
\* found Notified and returned at once.
C12_Witness ==
    \E n \in Notifiers, s \in Calls :
        /\ pc[s] = "parked" /\ state[s] = "Waiting"
        /\ CallThread(s) \in cond[s]
        /\ held[n][s] = 2 /\ clones[s] = 2
        /\ strong[s] = 4
        /\ lastWait[s] = "fast"

\* block_on of call d is past its loop.
LoopLeft(d) == pc[d] \in {"drop_waker", "drop_signal", "drop_fut", "done", "unwound"}

\* C13: transparent result.  block_on returns only after a poll attempt
\* that reported ready, with exactly the value of that attempt, whether it
\* encodes a success or an error; a ready poll attempt is followed by the
\* return and by nothing else: no poll attempt, no wait(), and the value
\* stays what it was; and under fair scheduling the return is reached.
C13_TransparentResult ==
    /\ [](\A d \in Calls :
            /\ pc[d] = "done" => pollres[d] \in Values /\ ret[d] = pollres[d]
            /\ ret[d] # "none" => ret[d] = pollres[d] /\ LoopLeft(d) /\ ~panicking[d]
            /\ pollres[d] \in Values =>
                  /\ pc[d] \in {"match", "drop_waker", "drop_signal", "drop_fut", "done"}
                  /\ ~InWait(d)
                  /\ polls[d] = waitRets[d] + 1
                  /\ waitCalls[d] = waitRets[d])
    /\ [][\A d \in Calls :
            pollres[d] \in Values =>
               /\ pollres'[d] = pollres[d]
               /\ polls'[d] = polls[d]
               /\ waitCalls'[d] = waitCalls[d]
               /\ ret'[d] \in {ret[d], pollres[d]}]_vars
    /\ \A d \in Calls : (pollres[d] \in Values) ~> (pc[d] = "done" /\ ret[d] = pollres[d])

\* block_on returned the error value of its third poll attempt, after two
\* wait() calls.
C13_Witness ==
    \E d \in Calls :
        /\ pc[d] = "done"
        /\ ret[d] = "err"
        /\ polls[d] = 3
        /\ waitRets[d] = 2

\* The only way a thread meets a poisoned mutex is on its way out of
\* cond.wait: no wait() or notify() is called on a Signal whose mutex is
\* poisoned already.
PoisonOnlyMetInCondWait ==
    \A s \in Calls :
        poisoned[s] =>
            /\ pc[s] \notin {"wait_lock", "t_lock"}
            /\ opc[s] # "lock"
            /\ \A n \in Notifiers : ~(npc[n] = "lock" /\ nsig[n] = s)

\* C14: a second wait() is fatal.  A wait(), by the driver or by another
\* thread, that finds Waiting under the lock panics: the state stays
\* Waiting, the set of threads blocked on the condition variable is what it
\* was, nothing is counted as a return of wait(), and the guard dropped by
\* the panic poisons the mutex; the thread that panicked is never blocked
\* on the condition variable afterwards.
C14_SecondWaitFatal ==
    /\ [](PoisonOnlyMetInCondWait)
    /\ [](\A s \in Calls :
            /\ panicking[s] => CallThread(s) \notin cond[s] /\ ~InWait(s)
            /\ opc[s] \in {"panicked", "gone"} => OtherThread(s) \notin cond[s])
    /\ [][\A s \in Calls :
            /\ (pc[s] = "wait_match" /\ state[s] = "Waiting" /\ pc'[s] # pc[s]) =>
                  /\ panicking'[s] /\ pc'[s] = "drop_waker"
                  /\ state'[s] = "Waiting"
                  /\ cond' = cond /\ lock'[s] = NoThread
                  /\ waitRets' = waitRets /\ polls' = polls
                  /\ poisoned'[s]
            /\ (opc[s] = "match" /\ state[s] = "Waiting" /\ opc'[s] # opc[s]) =>
                  /\ opc'[s] = "panicked"
                  /\ state'[s] = "Waiting"
                  /\ cond' = cond /\ lock'[s] = NoThread
                  /\ poisoned'[s]]_vars

\* The driver is blocked in cond.wait; the other thread called wait(),
\* found Waiting and panicked; the state is still Waiting.
C14_Witness ==
    \E s \in Calls :
        /\ pc[s] = "parked" /\ cond[s] = {CallThread(s)}
        /\ opc[s] = "panicked"
        /\ state[s] = "Waiting"
        /\ poisoned[s]

\* C15: no residual state between calls.  A block_on call that runs on the
\* thread of a finished call starts with a Signal of its own in state
\* Empty, unlocked, with no thread blocked on it; a notify() on the Signal
\* of another call, the finished one included, changes nothing of this
\* call's Signal nor where its driver is; so as long as no notify() on its
\* own Signal completed, its Signal is never Notified and its wait() has
\* not returned.
C15_NoResidualState ==
    /\ [](\A d \in Calls :
            (pred[d] # 0 /\ notifies[d] = 0) =>
                /\ state[d] \in {"Empty", "Waiting"}
                /\ waitRets[d] = 0
                /\ polls[d] <= 1)
    /\ [][\A d \in Calls :
            /\ (pc[d] = "idle" /\ pc'[d] # "idle" /\ pred'[d] # 0) =>
                  /\ Finished(pred'[d])
                  /\ state'[d] = "Empty"
                  /\ lock'[d] = NoThread /\ cond'[d] = {}
                  /\ strong'[d] = 1
                  /\ state'[pred'[d]] = state[pred'[d]]
            /\ \A n \in Notifiers :
                  (npc[n] = "body" /\ npc'[n] # "body" /\ nsig[n] # d) =>
                      /\ state'[d] = state[d]
                      /\ cond'[d] = cond[d] /\ lock'[d] = lock[d]
                      /\ pc'[d] = pc[d]
                      /\ notifies'[d] = notifies[d]
                      /\ waitRets'[d] = waitRets[d]]_vars

\* The first call has returned; a notifier thread is inside notify()
\* through a waker of the first call's Signal while the second call, on
\* the same thread, is blocked in cond.wait on its own Signal.
C15_Witness ==
    \E d, p \in Calls, n \in Notifiers :
        /\ pred[d] = p /\ pc[p] = "done"
        /\ npc[n] = "body" /\ nsig[n] = p
        /\ pc[d] = "parked" /\ state[d] = "Waiting"
        /\ notifies[d] = 0

\* The wakers of Signal s held outside block_on and its task.
Leaked(s) == HeldUpTo(s, NumNotifiers)

\* C16: unwind during a poll attempt.  A panic of the task makes block_on
\* unwind instead of returning: it releases nothing by itself, then the
\* driver's waker, the driver's Arc and every waker stored in the task are
\* released, one share each, once.  When block_on has unwound the share
\* count is the number of wakers leaked outside the task, and the Signal
\* is deallocated exactly when that number is zero, once.
C16_UnwindReleasesShares ==
    /\ [](~ub)
    /\ [](\A d \in Calls :
            /\ panicking[d] =>
                  /\ pc[d] \in {"drop_waker", "drop_signal", "drop_fut", "unwound"}
                  /\ ret[d] = "none"
                  /\ strong[d] = Owners(d)
            /\ pc[d] = "unwound" =>
                  /\ panicking[d]
                  /\ sigRef[d] = 0 /\ wakerRef[d] = 0 /\ taskH[d] = 0
                  /\ strong[d] = Leaked(d)
                  /\ freed[d] = (IF Leaked(d) = 0 THEN 1 ELSE 0))
    /\ [][\A d \in Calls :
            /\ (~panicking[d] /\ panicking'[d]) =>
                  /\ pc[d] = "poll" /\ pc'[d] = "drop_waker"
                  /\ strong' = strong /\ freed' = freed
                  /\ sigRef' = sigRef /\ wakerRef' = wakerRef /\ taskH' = taskH
            /\ (panicking[d] /\ pc'[d] # pc[d]) =>
                  \/ pc[d] = "drop_waker" /\ pc'[d] = "drop_signal"
                       /\ wakerRef[d] = 1 /\ wakerRef'[d] = 0
                       /\ strong'[d] = strong[d] - 1
                  \/ pc[d] = "drop_signal" /\ pc'[d] = "drop_fut"
                       /\ sigRef[d] = 1 /\ sigRef'[d] = 0
                       /\ strong'[d] = strong[d] - 1
                  \/ pc[d] = "drop_fut" /\ pc'[d] = "unwound"
                       /\ taskH[d] = 0 /\ strong'[d] = strong[d]
            /\ (panicking[d] /\ taskH'[d] # taskH[d]) =>
                  /\ pc[d] = "drop_fut"
                  /\ taskH'[d] = taskH[d] - 1
                  /\ strong'[d] = strong[d] - 1]_vars

\* The task panicked after two clones of the waker had been made; block_on
\* has unwound, no copy is left anywhere and the Signal is deallocated.
C16_Witness ==
    \E d \in Calls :
        /\ pc[d] = "unwound"
        /\ clones[d] = 2
        /\ Leaked(d) = 0
        /\ strong[d] = 0
        /\ freed[d] = 1

\* The driver of call d set Waiting and is in the loop around cond.wait.
InCondLoop(d) == pc[d] \in {"parked", "wait_check"}

\* C17: a wait() that set Waiting returns only because of a notify().  The
\* state leaves Waiting only in the step that completes a notify(), which
\* sets Empty; until a notify() completed during this wait() the state is
\* Waiting; a thread woken from cond.wait that finds Waiting blocks again,
\* and nothing is counted as a return; wait() returns, and the task is
\* polled again, only from the loop condition, with the state no longer
\* Waiting and a notify() completed during this wait().  So while no
\* notify() at all has completed, a block_on whose task reported pending
\* stays in its first wait(): one poll attempt, no return.
C17_WokenOnlyByNotify ==
    /\ [](\A d \in Calls :
            /\ (InCondLoop(d) /\ nIn[d] = 0) =>
                  /\ state[d] = "Waiting"
                  /\ polls[d] = waitRets[d] + 1
            /\ (notifies[d] = 0 /\ pollres[d] = "Pending") =>
                  /\ polls[d] = 1
                  /\ pc[d] = "match" \/ InWait(d)
                  /\ ret[d] = "none")
    /\ [][\A d \in Calls :
            /\ (state[d] = "Waiting" /\ state'[d] # "Waiting") =>
                  /\ NotifyInProgress(d)
                  /\ notifies'[d] = OneMoreNotify(d)
                  /\ nIn'[d] = Sat(nIn[d])
                  /\ state'[d] = "Empty"
            /\ (CallThread(d) \in cond[d] /\ CallThread(d) \notin cond'[d]) =>
                  /\ pc'[d] = "parked" /\ waitRets' = waitRets /\ polls' = polls
            /\ (pc[d] = "wait_check" /\ state[d] = "Waiting" /\ pc'[d] # pc[d]) =>
                  /\ pc'[d] = "parked"
                  /\ CallThread(d) \in cond'[d]
                  /\ lock'[d] = NoThread
                  /\ waitRets' = waitRets /\ polls' = polls
            /\ (InCondLoop(d) /\ ~InCondLoop(d)') =>
                  /\ pc[d] = "wait_check" /\ pc'[d] = "poll"
                  /\ state[d] # "Waiting"
                  /\ nIn[d] >= 1]_vars

\* The driver was woken from cond.wait with no notify() completed during
\* this wait(): it holds the mutex and finds Waiting.
C17_Witness ==
    \E d \in Calls :
        /\ pc[d] = "wait_check"
        /\ lock[d] = CallThread(d)
        /\ state[d] = "Waiting"
        /\ nIn[d] = 0
        /\ ~NotifyInProgress(d)

\* C18: the order of the driver loop.  Poll attempts and wait() calls
\* alternate, starting with a poll attempt: wait() is called only from the
\* match on a poll attempt that reported pending; a poll attempt starts
\* only after the waker is made (the first) or in the step in which a
\* wait() returns (every other one); during every poll attempt the driver
\* holds the one waker and the one Arc it made at the start; and outside
\* wait(), up to and after the return, the poll attempts are one more than
\* the wait() calls, all of which have returned.
C18_LoopOrder ==
    /\ [](\A d \in Calls :
            /\ InWait(d) =>
                  /\ pollres[d] = "Pending"
                  /\ waitCalls[d] = waitRets[d] + 1
                  /\ polls[d] = waitCalls[d]
            /\ (InPoll(d) \/ LoopLeft(d)) =>
                  /\ waitCalls[d] = waitRets[d]
                  /\ polls[d] = waitRets[d] + 1
            /\ InPoll(d) => wakerRef[d] = 1 /\ sigRef[d] = 1 /\ freed[d] = 0
            /\ pc[d] \in {"idle", "mk_waker"} => polls[d] = 0 /\ waitCalls[d] = 0)
    /\ [][\A d \in Calls :
            /\ waitCalls'[d] # waitCalls[d] =>
                  /\ pc[d] = "match" /\ pollres[d] = "Pending"
                  /\ pc'[d] = "wait_lock"
                  /\ waitCalls'[d] = waitCalls[d] + 1
            /\ polls'[d] # polls[d] =>
                  /\ polls'[d] = polls[d] + 1
                  /\ pc'[d] = "poll"
                  /\ \/ pc[d] = "mk_waker" /\ polls[d] = 0
                     \/ InWait(d) /\ waitRets'[d] = waitRets[d] + 1
            /\ waitRets'[d] # waitRets[d] =>
                  /\ InWait(d)
                  /\ waitRets'[d] = waitRets[d] + 1
                  /\ polls'[d] = polls[d] + 1
            /\ wakerRef'[d] # wakerRef[d] => pc[d] \in {"mk_waker", "drop_waker"}
            /\ sigRef'[d] # sigRef[d] => pc[d] \in {"idle", "drop_signal"}]_vars

\* block_on returned after as many poll attempts as the bound allows, with
\* a wait() between each two of them.
C18_Witness ==
    \E d \in Calls :
        /\ pc[d] = "done"
        /\ polls[d] = MaxPolls
        /\ waitCalls[d] = MaxPolls - 1
        /\ waitRets[d] = MaxPolls - 1

\* C19: every wakeup is paid for by a notification of its own.  On every
\* Signal the wait() calls that have returned are at most the notify()
\* calls that changed the state, hence at most the notify() calls that
\* completed and at most those that were made; so the poll attempts after
\* the first are at most the notifications.
C19_WakeupsPaid ==
    \A s \in Calls :
        /\ waitRets[s] <= notifies[s]
        /\ polls[s] <= notifies[s] + 1

\* As many wait() calls returned as the bound allows, on exactly as many
\* notify() calls.
C19_Witness ==
    \E s \in Calls :
        /\ waitRets[s] = MaxPolls - 1
        /\ notifies[s] = MaxPolls - 1
        /\ ~NotifyInProgress(s)

\* A step in which a notify() on Signal s completes its match.
NotifyCompletes(s) ==
    \/ pc[s] = "t_body" /\ pc'[s] # "t_body"
    \/ \E n \in Notifiers : npc[n] = "body" /\ nsig[n] = s /\ npc'[n] # "body"

\* C20: the state Waiting exists only while the driver is inside wait().
\* Waiting implies that the driver is in the loop around cond.wait; while
\* it polls the task, and once block_on has returned or unwound, the state
\* is Empty or Notified.  So a notify() completing then, through a waker
\* that outlived block_on included, finds Empty or Notified, leaves
\* Notified and wakes no thread.
C20_WaitingOnlyInWait ==
    /\ [](\A d \in Calls :
            /\ state[d] = "Waiting" => InCondLoop(d)
            /\ (InPoll(d) \/ LoopLeft(d)) => state[d] \in {"Empty", "Notified"})
    /\ [][\A d \in Calls :
            (~InWait(d) /\ NotifyCompletes(d)) =>
                /\ state[d] \in {"Empty", "Notified"}
                /\ state'[d] = "Notified"
                /\ cond' = cond
                /\ pc'[d] = pc[d] \/ pc[d] = "t_body"]_vars

\* block_on returned after its driver had blocked and been woken; a
\* notifier thread is inside notify() through a waker that outlived the
\* call and finds Empty.
C20_Witness ==
    \E d \in Calls, n \in Notifiers :
        /\ pc[d] = "done" /\ everParked[d]
        /\ npc[n] = "body" /\ nsig[n] = d
        /\ lock[d] = NotifierThread(n)
        /\ state[d] = "Empty"
====
